---- MODULE Spec2Model ----
(***************************************************************************)
(* Model of src/driver_analyzer.py: the two inventory commands, the two    *)
(* output parsers, the stopped-driver filter and the report writer.        *)
(*                                                                         *)
(* Python str values are TLA+ strings (TLC evaluates Len, SubSeq and \o on *)
(* strings, one character per position).  Python's None and a str share a  *)
(* variable in the source, so such a value is a record [none, s].  A dict  *)
(* is the sequence of its <<key, value>> items in insertion order; a list  *)
(* is a sequence.                                                          *)
(***************************************************************************)
EXTENDS Integers, Sequences, FiniteSets, TLC

VARIABLES
    pc,                    \* position in main / in the function under call
    argv_view_web,         \* sys.argv[1].lower() == '--view-web'
    admin,                 \* what is_admin() returns
    v_status,              \* what 'driverquery /v' did: not_found, nonzero, ok
    si_status,             \* what 'driverquery /si' did
    driver_v_output,       \* main: driver_v_output (None or str)
    signed_driver_output,  \* main: signed_driver_output (None or str)
    all_drivers,           \* main: all_drivers
    unsigned_drivers,      \* main: unsigned_drivers
    stopped_drivers,       \* main: stopped_drivers
    si_locals,             \* parse_signed_driver_output: its locals at return
    report,                \* report.txt: the strings written, in order
    console                \* what main printed about the run's outcome

vars == <<pc, argv_view_web, admin, v_status, si_status, driver_v_output,
          signed_driver_output, all_drivers, unsigned_drivers,
          stopped_drivers, si_locals, report, console>>

----------------------------------------------------------------------------
(* Bounds of the checked inputs. *)

MaxLines == 4
MaxRows == 2
MaxStopped == 2
MaxUnsigned == 2
MaxBlocks == 2

----------------------------------------------------------------------------
(* Python values and str methods. *)

NoneVal == [none |-> TRUE, s |-> ""]

Str(s) == [none |-> FALSE, s |-> s]

\* `not output`: None and the empty str are both falsy.
Falsy(o) == o.none \/ o.s = ""

Min(S) == CHOOSE x \in S : \A y \in S : x <= y

Max(S) == CHOOSE x \in S : \A y \in S : x >= y

Ch(s, i) == SubSeq(s, i, i)

\* The characters str.strip() removes (of those the inputs use).
Whitespace == {" ", "\t", "\n", "\r"}

strip(s) ==
    LET keep == {i \in 1..Len(s) : Ch(s, i) \notin Whitespace}
    IN  IF keep = {} THEN "" ELSE SubSeq(s, Min(keep), Max(keep))

\* str.find, 1-based; 0 when sep does not occur.
find(s, sep) ==
    LET hits == {i \in 1..(Len(s) - Len(sep) + 1) :
                     SubSeq(s, i, i + Len(sep) - 1) = sep}
    IN  IF hits = {} THEN 0 ELSE Min(hits)

RECURSIVE split(_, _)
split(s, sep) ==
    LET i == find(s, sep)
    IN  IF i = 0 THEN <<s>>
        ELSE <<SubSeq(s, 1, i - 1)>> \o split(SubSeq(s, i + Len(sep), Len(s)), sep)

\* str.split(sep, 1) on a string that contains sep: <<before, after>>.
split1(s, sep) ==
    LET i == find(s, sep)
    IN  <<SubSeq(s, 1, i - 1), SubSeq(s, i + Len(sep), Len(s))>>

RECURSIVE join(_, _)
join(parts, sep) ==
    IF parts = <<>> THEN ""
    ELSE IF Len(parts) = 1 THEN parts[1]
    ELSE parts[1] \o sep \o join(Tail(parts), sep)

\* str.replace(old, new): every occurrence, left to right.
replace(s, old, new) == join(split(s, old), new)

Upper == <<"A", "B", "C", "D", "E", "F", "G", "H", "I", "J", "K", "L", "M",
           "N", "O", "P", "Q", "R", "S", "T", "U", "V", "W", "X", "Y", "Z">>

Lower == <<"a", "b", "c", "d", "e", "f", "g", "h", "i", "j", "k", "l", "m",
           "n", "o", "p", "q", "r", "s", "t", "u", "v", "w", "x", "y", "z">>

lower_char(c) ==
    IF \E i \in 1..26 : Upper[i] = c
    THEN Lower[CHOOSE i \in 1..26 : Upper[i] = c]
    ELSE c

RECURSIVE lower(_)
lower(s) ==
    IF s = "" THEN "" ELSE lower_char(Ch(s, 1)) \o lower(SubSeq(s, 2, Len(s)))

Digits == <<"0", "1", "2", "3", "4", "5", "6", "7", "8", "9">>

\* str(n) of a non-negative int, as an f-string renders it.
RECURSIVE str(_)
str(n) == IF n < 10 THEN Digits[n + 1] ELSE str(n \div 10) \o Digits[(n % 10) + 1]

\* dict: items in insertion order; d[k] = v keeps the place of a key it has.
dict_has(d, k) == \E i \in 1..Len(d) : d[i][1] = k

dict_set(d, k, v) ==
    IF dict_has(d, k)
    THEN [i \in 1..Len(d) |-> IF d[i][1] = k THEN <<k, v>> ELSE d[i]]
    ELSE Append(d, <<k, v>>)

dict_get(d, k, default) ==
    IF dict_has(d, k) THEN d[CHOOSE i \in 1..Len(d) : d[i][1] = k][2] ELSE default

\* dict == dict: the same items, whatever their order.
dict_eq(d, e) == Len(d) = Len(e) /\ {d[i] : i \in 1..Len(d)} = {e[i] : i \in 1..Len(e)}

----------------------------------------------------------------------------
(* parse_driver_v_output *)

header_map ==
    ("Nombre de módulo" :> "ModuleName") @@ ("Module Name" :> "ModuleName") @@
    ("Nombre a mostrar" :> "DisplayName") @@ ("Display Name" :> "DisplayName") @@
    ("Descripción del controlador" :> "Description") @@
    ("Driver Description" :> "Description") @@
    ("Tipo de controlador" :> "Driver Type") @@ ("Tipo" :> "Driver Type") @@
    ("Estado" :> "State") @@
    ("PnP Device ID" :> "PnPDeviceID")

normalize_key_verbatim(key) == key

\* header_map.get(key, key)
normalize_key(key) == IF key \in DOMAIN header_map THEN header_map[key] ELSE key

driver_store_append(driver, k, v) == Append(driver, <<k, v>>)

\* driver[normalized_key] = value.strip()
driver_store(driver, k, v) == dict_set(driver, k, v)

\* The loop over the lines of one record.
RECURSIVE parse_lines(_, _)
parse_lines(lines, driver) ==
    IF lines = <<>> THEN driver
    ELSE LET line == Head(lines)
         IN  IF find(line, ":") # 0
             THEN LET kv == split1(line, ":")
                      key == strip(kv[1])
                  IN  parse_lines(Tail(lines),
                                  driver_store(driver, normalize_key(key), strip(kv[2])))
             ELSE parse_lines(Tail(lines), driver)

keep_driver_always(driver) == TRUE

\* `if driver:` a dict is truthy when it has an item.
keep_driver(driver) == driver # <<>>

\* The loop over the records.
RECURSIVE parse_records(_, _)
parse_records(records, drivers) ==
    IF records = <<>> THEN drivers
    ELSE LET driver == parse_lines(split(strip(Head(records)), "\n"), <<>>)
         IN  parse_records(Tail(records),
                           IF keep_driver(driver) THEN Append(drivers, driver)
                           ELSE drivers)

parse_driver_v_output(output) ==
    IF Falsy(output) THEN <<>>
    ELSE parse_records(split(strip(output.s), "\n\n"), <<>>)

----------------------------------------------------------------------------
(* Inputs of parse_driver_v_output: texts of up to MaxLines lines. *)

VLinePool ==
    {"Nombre de módulo:ACPI ", "module name: a:b", "Tipo: K",
     " Tipo de controlador : F", "junk", "", " "}

RECURSIVE SeqsUpTo(_, _)
SeqsUpTo(S, n) ==
    IF n = 0 THEN {<<>>}
    ELSE LET shorter == SeqsUpTo(S, n - 1)
         IN  shorter \cup {Append(q, x) : q \in {r \in shorter : Len(r) = n - 1}, x \in S}

\* One colon-bearing line per label of the table, and per label in another case.
LabelTexts ==
    {pad \o label \o pad \o ":" \o pad \o "v" :
        pad \in {"", " "},
        label \in DOMAIN header_map \cup {lower(l) : l \in DOMAIN header_map}
                  \cup {"State", "ModuleName"}}

VTexts == {join(ls, "\n") : ls \in SeqsUpTo(VLinePool, MaxLines)} \cup LabelTexts

IdleMain ==
    /\ argv_view_web = FALSE
    /\ admin = TRUE
    /\ v_status = "ok"
    /\ si_status = "ok"
    /\ stopped_drivers = <<>>
    /\ report = <<>>
    /\ console = <<>>

NoSiLocals == [is_signed_index |-> -1, warned |-> FALSE, raised |-> FALSE]

InitV ==
    /\ pc = "call_parse_driver_v_output"
    /\ driver_v_output \in {Str(t) : t \in VTexts} \cup {NoneVal}
    /\ signed_driver_output = NoneVal
    /\ all_drivers = <<>>
    /\ unsigned_drivers = <<>>
    /\ si_locals = NoSiLocals
    /\ IdleMain

CallParseDriverV ==
    /\ pc = "call_parse_driver_v_output"
    /\ all_drivers' = parse_driver_v_output(driver_v_output)
    /\ pc' = "return_parse_driver_v_output"
    /\ UNCHANGED <<argv_view_web, admin, v_status, si_status, driver_v_output,
                   signed_driver_output, unsigned_drivers, stopped_drivers,
                   si_locals, report, console>>

NextV == CallParseDriverV

SpecV == InitV /\ [][NextV]_vars

----------------------------------------------------------------------------
(* What the claims about parse_driver_v_output speak of: lines, blocks. *)

HasColon(line) == find(line, ":") # 0

\* The lines of a text, grouped into the runs that empty lines delimit.
RECURSIVE GroupBlocks(_, _, _)
GroupBlocks(lines, cur, acc) ==
    IF lines = <<>> THEN (IF cur = <<>> THEN acc ELSE Append(acc, cur))
    ELSE IF Head(lines) = ""
         THEN GroupBlocks(Tail(lines), <<>>, IF cur = <<>> THEN acc ELSE Append(acc, cur))
         ELSE GroupBlocks(Tail(lines), Append(cur, Head(lines)), acc)

BlocksOf(text) == GroupBlocks(split(strip(text), "\n"), <<>>, <<>>)

BlockHasColon(block) == \E i \in 1..Len(block) : HasColon(block[i])

ColonBlocks(text) == SelectSeq(BlocksOf(text), BlockHasColon)

LineKey(line) == strip(split1(line, ":")[1])

LineValue(line) == strip(split1(line, ":")[2])

VReturned == pc = "return_parse_driver_v_output"

VText == IF driver_v_output.none THEN "" ELSE driver_v_output.s

\* C3: parse_driver_v_output returns one record per blank-line-delimited block
\* that has a colon-bearing line, in block order (the i-th record is what the
\* i-th such block alone parses to); a block with no colon-bearing line gives no
\* record, and no record is empty; empty input gives the empty sequence.
C3_OneRecordPerColonBlock ==
    VReturned =>
        LET blocks == ColonBlocks(VText)
        IN  /\ Len(all_drivers) = Len(blocks)
            /\ \A i \in 1..Len(all_drivers) :
                   /\ all_drivers[i] # <<>>
                   /\ parse_driver_v_output(Str(join(blocks[i], "\n"))) = <<all_drivers[i]>>
            /\ (VText = "" => all_drivers = <<>>)

\* A returned call on a text with a run of three newlines and a block without
\* a colon, which gave fewer records than the text has blocks.
C3_Witness ==
    /\ VReturned
    /\ \E i \in 1..Len(BlocksOf(VText)) : ~BlockHasColon(BlocksOf(VText)[i])
    /\ find(VText, "\n\n\n") # 0
    /\ all_drivers # <<>>
    /\ Len(all_drivers) < Len(BlocksOf(VText))

\* A line with its label replaced by another label, the rest of the line kept.
SwapLine(line, from, to) ==
    IF HasColon(line) /\ LineKey(line) = from
    THEN to \o ":" \o split1(line, ":")[2]
    ELSE line

SwapText(text, from, to) ==
    LET lines == split(text, "\n")
    IN  join([i \in 1..Len(lines) |-> SwapLine(lines[i], from, to)], "\n")

\* The non-English label of a field and the English label of the same field.
LabelPairs ==
    {<<"Nombre de módulo", "Module Name">>, <<"Nombre a mostrar", "Display Name">>,
     <<"Descripción del controlador", "Driver Description">>,
     <<"Tipo de controlador", "Driver Type">>, <<"Tipo", "Driver Type">>,
     <<"Estado", "State">>}

\* C8: every colon-bearing line whose trimmed key is a label of the table gives
\* its record the label's canonical key and never the label itself, a key not in
\* the table (in another case, say) is kept verbatim, and the text with a
\* non-English label replaced by the English label of the same field parses to
\* the same records.
C8_KeyNormalization ==
    VReturned =>
        LET blocks == ColonBlocks(VText)
        IN  /\ Len(all_drivers) = Len(blocks)
            /\ \A i \in 1..Len(all_drivers) :
                   /\ \A j \in 1..Len(blocks[i]) :
                          HasColon(blocks[i][j]) =>
                              LET key == LineKey(blocks[i][j])
                              IN  IF key \in DOMAIN header_map
                                  THEN dict_has(all_drivers[i], header_map[key])
                                  ELSE dict_has(all_drivers[i], key)
                   /\ \A k \in DOMAIN header_map : ~dict_has(all_drivers[i], k)
            /\ \A pair \in {p \in LabelPairs : find(VText, p[1]) # 0} :
                   LET other == parse_driver_v_output(
                                    Str(SwapText(VText, pair[1], pair[2])))
                   IN  /\ Len(other) = Len(all_drivers)
                       /\ \A i \in 1..Len(other) : dict_eq(other[i], all_drivers[i])

\* A returned call on a text that uses the non-English label for Module Name,
\* and one on a text whose key is a table label in another case.
C8_Witness ==
    /\ VReturned
    /\ \/ /\ \E i \in 1..Len(all_drivers) : dict_has(all_drivers[i], "ModuleName")
          /\ find(VText, "Nombre de módulo") # 0
          /\ find(VText, "Module Name") = 0
       \/ \E i \in 1..Len(all_drivers) : dict_has(all_drivers[i], "estado")

\* The lines of a block whose normalized key is k.
LinesWithKey(block, k) ==
    {j \in 1..Len(block) : HasColon(block[j]) /\ normalize_key(LineKey(block[j])) = k}

\* C10: in the record of a block, every key has exactly one entry, and its value
\* is the trimmed text after the first colon of the last line of that block with
\* that normalized key, whatever the other blocks hold.
C10_LastWriteWins ==
    VReturned =>
        LET blocks == ColonBlocks(VText)
        IN  /\ Len(all_drivers) = Len(blocks)
            /\ \A i \in 1..Len(all_drivers) :
                   LET d == all_drivers[i]
                   IN  /\ \A a, b \in 1..Len(d) : d[a][1] = d[b][1] => a = b
                       /\ \A a \in 1..Len(d) :
                              LET same == LinesWithKey(blocks[i], d[a][1])
                              IN  /\ same # {}
                                  /\ d[a][2] = LineValue(blocks[i][Max(same)])

\* A returned call on a block where two different labels of the table give the
\* same canonical key, the later line's value being the one kept.
C10_Witness ==
    /\ VReturned
    /\ \E i \in 1..Len(all_drivers) :
           LET block == ColonBlocks(VText)[i]
           IN  /\ \E a, b \in LinesWithKey(block, "Driver Type") :
                      a < b /\ LineKey(block[a]) # LineKey(block[b])
                            /\ LineValue(block[a]) # LineValue(block[b])
               /\ Len(all_drivers[i]) = 1

----------------------------------------------------------------------------
(* parse_signed_driver_output *)

\* p.strip().replace('"', '')
clean(p) == replace(strip(p), "\"", "")

clean_fields(line) ==
    LET raw == split(line, ",") IN [i \in 1..Len(raw) |-> clean(raw[i])]

\* list.index, 0-based, of a value the list holds.
index(list, x) == Min({i \in 1..Len(list) : list[i] = x}) - 1

contains(list, x) == \E i \in 1..Len(list) : list[i] = x

resolve_index_english_only(header) ==
    IF contains(header, "IsSigned") THEN index(header, "IsSigned") ELSE -1

\* The if/elif that sets is_signed_index, -1 when no header field matches.
resolve_index(header) ==
    IF contains(header, "IsSigned") THEN index(header, "IsSigned")
    ELSE IF contains(header, "Está firmado") THEN index(header, "Está firmado")
    ELSE -1

row_long_enough_off_by_one(parts, is_signed_index) == Len(parts) >= is_signed_index

\* len(parts) > is_signed_index
row_long_enough(parts, is_signed_index) == Len(parts) > is_signed_index

\* The loop over the data rows; acc is [names, raised].  Reading parts[i] of a
\* list without an item i raises IndexError, which nothing catches.
RECURSIVE parse_rows(_, _, _)
parse_rows(rows, is_signed_index, acc) ==
    IF rows = <<>> \/ acc.raised THEN acc
    ELSE LET line == Head(rows)
             parts == clean_fields(line)
         IN  IF strip(line) # "" /\ row_long_enough(parts, is_signed_index)
             THEN IF is_signed_index + 1 > Len(parts)
                  THEN [acc EXCEPT !.raised = TRUE]
                  ELSE IF lower(parts[is_signed_index + 1]) = "false"
                       THEN parse_rows(Tail(rows), is_signed_index,
                                       [acc EXCEPT !.names = Append(@, parts[1])])
                       ELSE parse_rows(Tail(rows), is_signed_index, acc)
             ELSE parse_rows(Tail(rows), is_signed_index, acc)

\* The function's result and its locals at the return.
parse_signed_driver_output(output) ==
    LET none == [unsigned_drivers |-> <<>>, is_signed_index |-> -1,
                 warned |-> FALSE, raised |-> FALSE]
    IN  IF Falsy(output) THEN none
        ELSE LET lines == split(strip(output.s), "\n")
             IN  IF Len(lines) < 2 THEN none
                 ELSE LET header == clean_fields(lines[1])
                          found == resolve_index(header)
                          is_signed_index ==
                              IF found # -1 THEN found
                              ELSE IF Len(header) > 1 THEN 1 ELSE -1
                      IN  IF is_signed_index = -1
                          THEN [none EXCEPT !.warned = TRUE]
                          ELSE LET got == parse_rows(Tail(lines), is_signed_index,
                                                     [names |-> <<>>, raised |-> FALSE])
                               IN  [unsigned_drivers |-> got.names,
                                    is_signed_index |-> is_signed_index,
                                    warned |-> (found = -1),
                                    raised |-> got.raised]

----------------------------------------------------------------------------
(* Inputs of parse_signed_driver_output: a header and up to MaxRows rows. *)

HeaderPool ==
    {"Name, \"IsSigned\" ", "Name,Inf,Está firmado", "Está firmado,Name,IsSigned",
     "Name,Signed", "Name", "IsSigned", "Name,\" IsSigned \",Está firmado"}

RowPool ==
    {"\"dev1\",\"False\"", "dev2,FALSE,x", "\"dev3\",\" false \"", "dev4,true,false",
     "dev5", "", " dev7 , false ", "false", "  "}

SITexts ==
    {join(<<h>> \o rows, "\n") : h \in HeaderPool, rows \in SeqsUpTo(RowPool, MaxRows)}
    \cup {"", "\n"}

InitSI ==
    /\ pc = "call_parse_signed_driver_output"
    /\ signed_driver_output \in {Str(t) : t \in SITexts} \cup {NoneVal}
    /\ driver_v_output = NoneVal
    /\ all_drivers = <<>>
    /\ unsigned_drivers = <<>>
    /\ si_locals = NoSiLocals
    /\ IdleMain

CallParseSigned ==
    /\ pc = "call_parse_signed_driver_output"
    /\ LET ret == parse_signed_driver_output(signed_driver_output)
       IN  /\ unsigned_drivers' = ret.unsigned_drivers
           /\ si_locals' = [is_signed_index |-> ret.is_signed_index,
                            warned |-> ret.warned, raised |-> ret.raised]
           /\ pc' = IF ret.raised THEN "raised_parse_signed_driver_output"
                    ELSE "return_parse_signed_driver_output"
    /\ UNCHANGED <<argv_view_web, admin, v_status, si_status, driver_v_output,
                   signed_driver_output, all_drivers, stopped_drivers, report,
                   console>>

NextSI == CallParseSigned

SpecSI == InitSI /\ [][NextSI]_vars

----------------------------------------------------------------------------
(* What the claims about parse_signed_driver_output speak of. *)

SIText == IF signed_driver_output.none THEN "" ELSE signed_driver_output.s

SILines == split(strip(SIText), "\n")

SIDataRows == Tail(SILines)

SICalled == pc # "call_parse_signed_driver_output"

SIReturned == pc = "return_parse_signed_driver_output"

RecognizedLabels == {"IsSigned", "Está firmado"}

\* A field with the double quotes and whitespace around it removed.
StripQuotesAndSpace(f) ==
    LET keep == {i \in 1..Len(f) : Ch(f, i) \notin Whitespace \cup {"\""}}
    IN  IF keep = {} THEN "" ELSE SubSeq(f, Min(keep), Max(keep))

\* Whether the row's field at the column (0-based), normalized as the claim
\* says, is "false".
RowIsUnsigned(line, col) ==
    LET raw == split(line, ",")
    IN  /\ Len(raw) > col
        /\ lower(StripQuotesAndSpace(raw[col + 1])) = "false"

RECURSIVE FirstFields(_)
FirstFields(rows) ==
    IF rows = <<>> THEN <<>>
    ELSE <<clean(split(Head(rows), ",")[1])>> \o FirstFields(Tail(rows))

\* C2 (the claim as stated): with a header and at least one data row and the
\* column resolved, the result is, in row order, the first field of exactly the
\* rows whose field at the resolved column, with surrounding double quotes and
\* whitespace stripped and lower-cased, equals "false".
C2_UnsignedIffFalse ==
    (SIReturned /\ Len(SILines) >= 2 /\ si_locals.is_signed_index >= 0) =>
        unsigned_drivers =
            FirstFields(SelectSeq(SIDataRows,
                                  LAMBDA r : RowIsUnsigned(r, si_locals.is_signed_index)))

\* Whether the code collects the row: it is not blank, it has the column, and
\* the cleaned field there, lower-cased, is "false".
RowCollected(line, col) ==
    /\ strip(line) # ""
    /\ Len(split(line, ",")) > col
    /\ lower(clean(split(line, ",")[col + 1])) = "false"

\* C9: the call never raises, whatever the rows' lengths; the result is, in row
\* order, the cleaned first column of exactly the rows that are not blank, have
\* the resolved column and hold "false" there, so a blank or short row is
\* skipped and changes nothing for the rows after it.
C9_ShortRowsSkipped ==
    SICalled =>
        /\ ~si_locals.raised
        /\ pc # "raised_parse_signed_driver_output"
        /\ (Len(SILines) >= 2 /\ si_locals.is_signed_index >= 0) =>
               unsigned_drivers =
                   FirstFields(SelectSeq(SIDataRows,
                                         LAMBDA r : RowCollected(r, si_locals.is_signed_index)))

\* A returned call where a row with exactly as many fields as the column's
\* index was skipped and a later row was collected.
C9_Witness ==
    /\ SIReturned
    /\ Len(SIDataRows) = 2
    /\ si_locals.is_signed_index = 2
    /\ Len(split(SIDataRows[1], ",")) = 2
    /\ unsigned_drivers = <<"dev4">>

\* C5: with fewer than two lines the result is empty.  Otherwise, when a cleaned
\* header field equals a recognized label, the column is the position of such a
\* field ('IsSigned' first) and nothing is warned; when none does, the call
\* warns and uses column 1 if the header has two columns or more, and returns
\* the empty sequence without raising if it has fewer.
C5_ColumnResolution ==
    SICalled =>
        IF Len(SILines) < 2 THEN unsigned_drivers = <<>> /\ ~si_locals.raised
        ELSE LET header == clean_fields(SILines[1])
                 idx == si_locals.is_signed_index
             IN  IF \E i \in 1..Len(header) : header[i] \in RecognizedLabels
                 THEN /\ ~si_locals.warned
                      /\ idx >= 0 /\ idx < Len(header)
                      /\ header[idx + 1] \in RecognizedLabels
                      /\ \A i \in 1..idx : header[i] # header[idx + 1]
                      /\ (contains(header, "IsSigned") => header[idx + 1] = "IsSigned")
                 ELSE /\ si_locals.warned
                      /\ ~si_locals.raised
                      /\ IF Len(header) >= 2 THEN idx = 1
                         ELSE unsigned_drivers = <<>>

\* A returned call that warned, fell back to column 1 and collected a name; and
\* one that resolved the non-English label at column 2.
C5_Witness ==
    /\ SIReturned
    /\ \/ si_locals.warned /\ si_locals.is_signed_index = 1 /\ unsigned_drivers # <<>>
       \/ /\ ~si_locals.warned /\ si_locals.is_signed_index = 2
          /\ ~contains(clean_fields(SILines[1]), "IsSigned")
          /\ unsigned_drivers # <<>>

----------------------------------------------------------------------------
(* generate_report *)

missing_as_empty(driver, key) == dict_get(driver, key, "")

\* driver.get(key, 'N/A')
field_or_na(driver, key) == dict_get(driver, key, "N/A")

\* The three writes for one stopped driver.
stopped_entry(driver) ==
    <<"  - Name: " \o field_or_na(driver, "ModuleName") \o "\n",
      "    Display Name: " \o field_or_na(driver, "DisplayName") \o "\n",
      "    PnP Device ID: " \o field_or_na(driver, "PnPDeviceID") \o "\n\n">>

RECURSIVE stopped_entries(_)
stopped_entries(drivers) ==
    IF drivers = <<>> THEN <<>>
    ELSE stopped_entry(Head(drivers)) \o stopped_entries(Tail(drivers))

unsigned_entries(names) == [i \in 1..Len(names) |-> "  - " \o names[i] \o "\n"]

summary_counts(stopped, unsigned) ==
    <<"Found " \o str(Len(stopped)) \o " stopped drivers.\n",
      "Found " \o str(Len(unsigned)) \o " unsigned drivers.\n">>

\* The strings written to report.txt, in order; now is the formatted time.
generate_report(stopped, unsigned, now) ==
    <<"Driver Analysis Report\n",
      "======================\n",
      "Generated on: " \o now \o "\n\n",
      "--- Summary ---\n">>
    \o summary_counts(stopped, unsigned)
    \o <<"Note: Not all stopped or unsigned drivers indicate a problem. This report is for informational purposes.\n\n">>
    \o (IF stopped # <<>>
        THEN <<"--- Stopped Drivers ---\n">> \o stopped_entries(stopped)
        ELSE <<"--- Stopped Drivers ---\n", "No stopped drivers found.\n\n">>)
    \o (IF unsigned # <<>>
        THEN <<"--- Unsigned Drivers ---\n">> \o unsigned_entries(unsigned) \o <<"\n">>
        ELSE <<"--- Unsigned Drivers ---\n", "No unsigned drivers found.\n\n">>)
    \o <<"--- Recommendations ---\n",
         "1. Check Windows Update for the latest official drivers.\n",
         "2. For specific hardware (e.g., graphics cards), visit the manufacturer's official website (NVIDIA, AMD, Intel).\n",
         "3. Do NOT download drivers from third-party websites.\n">>

\* Values of datetime.now().strftime('%Y-%m-%d %H:%M:%S').
Timestamps == {"2024-01-31 09:05:00", "2025-12-01 23:59:59"}

----------------------------------------------------------------------------
(* Inputs of generate_report: what main can pass it. *)

RecordPool ==
    {<< <<"ModuleName", "ACPI">>, <<"DisplayName", "ACPI Driver">>,
        <<"State", "Stopped">>, <<"PnPDeviceID", "ROOT\\ACPI">> >>,
     << <<"ModuleName", "B">>, <<"State", "STOPPED">> >>,
     << <<"State", "stopped">>, <<"DisplayName", "">> >>,
     << <<"PnPDeviceID", "--- Summary ---">>, <<"State", "Stopped">> >>}

NamePool == {"dev1", "", "Name: x"}

InitReport ==
    /\ pc = "call_generate_report"
    /\ stopped_drivers \in SeqsUpTo(RecordPool, MaxStopped)
    /\ unsigned_drivers \in SeqsUpTo(NamePool, MaxUnsigned)
    /\ driver_v_output = NoneVal
    /\ signed_driver_output = NoneVal
    /\ all_drivers = <<>>
    /\ si_locals = NoSiLocals
    /\ argv_view_web = FALSE
    /\ admin = TRUE
    /\ v_status = "ok"
    /\ si_status = "ok"
    /\ report = <<>>
    /\ console = <<>>

CallGenerateReport ==
    /\ pc = "call_generate_report"
    /\ \E now \in Timestamps :
           report' = generate_report(stopped_drivers, unsigned_drivers, now)
    /\ pc' = "return_generate_report"
    /\ UNCHANGED <<argv_view_web, admin, v_status, si_status, driver_v_output,
                   signed_driver_output, all_drivers, unsigned_drivers,
                   stopped_drivers, si_locals, console>>

NextReport == CallGenerateReport

SpecReport == InitReport /\ [][NextReport]_vars

----------------------------------------------------------------------------
(* What the claim about generate_report speaks of: the file's lines. *)

ReportLines == split(join(report, ""), "\n")

LinesEqual(lines, h) == {i \in 1..Len(lines) : lines[i] = h}

StartsWith(s, prefix) == Len(s) >= Len(prefix) /\ SubSeq(s, 1, Len(prefix)) = prefix

\* The lines after line a and before line b that start with the prefix.
EntriesBetween(lines, a, b, prefix) ==
    SelectSeq(SubSeq(lines, a + 1, b - 1), LAMBDA l : StartsWith(l, prefix))

FieldOrNA(driver, key) ==
    IF \E i \in 1..Len(driver) : driver[i][1] = key
    THEN driver[CHOOSE i \in 1..Len(driver) : driver[i][1] = key][2]
    ELSE "N/A"

\* C7: the written document has the Summary, Stopped Drivers, Unsigned Drivers
\* and Recommendations headings once each and in that order; the two counts of
\* the summary are the numbers of entries listed in the two detail sections;
\* the entries are those of the sequences, in order, a field a record lacks
\* shown as N/A; and a category shows its 'No ... found.' line exactly when it
\* is empty.
C7_ReportStructure ==
    pc = "return_generate_report" =>
        LET lines == ReportLines
            sums == LinesEqual(lines, "--- Summary ---")
            stos == LinesEqual(lines, "--- Stopped Drivers ---")
            unss == LinesEqual(lines, "--- Unsigned Drivers ---")
            recs == LinesEqual(lines, "--- Recommendations ---")
        IN  /\ \A set \in {sums, stos, unss, recs} : Cardinality(set) = 1
            /\ LET sum == Min(sums)
                   sto == Min(stos)
                   uns == Min(unss)
                   rec == Min(recs)
                   names == EntriesBetween(lines, sto, uns, "  - Name: ")
                   shown == EntriesBetween(lines, sto, uns, "    Display Name: ")
                   pnps == EntriesBetween(lines, sto, uns, "    PnP Device ID: ")
                   devs == EntriesBetween(lines, uns, rec, "  - ")
               IN  /\ sum < sto /\ sto < uns /\ uns < rec
                   /\ lines[sum + 1] = "Found " \o str(Len(names)) \o " stopped drivers."
                   /\ lines[sum + 2] = "Found " \o str(Len(devs)) \o " unsigned drivers."
                   /\ names = [i \in 1..Len(stopped_drivers) |->
                                  "  - Name: " \o FieldOrNA(stopped_drivers[i], "ModuleName")]
                   /\ shown = [i \in 1..Len(stopped_drivers) |->
                                  "    Display Name: "
                                      \o FieldOrNA(stopped_drivers[i], "DisplayName")]
                   /\ pnps = [i \in 1..Len(stopped_drivers) |->
                                 "    PnP Device ID: "
                                     \o FieldOrNA(stopped_drivers[i], "PnPDeviceID")]
                   /\ devs = [i \in 1..Len(unsigned_drivers) |->
                                 "  - " \o unsigned_drivers[i]]
                   /\ (stopped_drivers = <<>>) <=>
                          (\E i \in (sto + 1)..(uns - 1) :
                               lines[i] = "No stopped drivers found.")
                   /\ (unsigned_drivers = <<>>) <=>
                          (\E i \in (uns + 1)..(rec - 1) :
                               lines[i] = "No unsigned drivers found.")

\* A written report of two stopped drivers, one without a ModuleName, and no
\* unsigned driver.
C7_Witness ==
    /\ pc = "return_generate_report"
    /\ Len(stopped_drivers) = 2
    /\ ~dict_has(stopped_drivers[2], "ModuleName")
    /\ unsigned_drivers = <<>>
    /\ \E i \in 1..Len(report) : report[i] = "  - Name: N/A\n"
    /\ \E i \in 1..Len(report) : report[i] = "No unsigned drivers found.\n\n"

----------------------------------------------------------------------------
(* run_command and main *)

run_command_reraise(outcome) ==
    IF outcome.status = "ok" THEN [raised |-> FALSE, value |-> Str(outcome.stdout)]
    ELSE IF outcome.status = "not_found" THEN [raised |-> FALSE, value |-> NoneVal]
    ELSE [raised |-> TRUE, value |-> NoneVal]

\* subprocess.run either returns (stdout is the result), raises FileNotFoundError
\* or, with check=True, raises CalledProcessError; both are caught.
run_command(outcome) ==
    IF outcome.status = "ok" THEN [raised |-> FALSE, value |-> Str(outcome.stdout)]
    ELSE IF outcome.status = "not_found" THEN [raised |-> FALSE, value |-> NoneVal]
    ELSE [raised |-> FALSE, value |-> NoneVal]

\* not driver_v_output and not signed_driver_output
no_data(v_output, si_output) == Falsy(v_output) /\ Falsy(si_output)

is_stopped_case_sensitive(d) == dict_get(d, "State", "") = "stopped"

\* d.get('State', '').lower() == 'stopped'
is_stopped(d) == lower(dict_get(d, "State", "")) = "stopped"

filter_stopped(drivers) == SelectSeq(drivers, is_stopped)

\* What the two commands can print: blocks of 'driverquery /v /fo list' ...
MainBlockPool ==
    {"Module Name: ACPI\nDisplay Name: ACPI Driver\nEstado: Stopped",
     "Module Name: B\nState: Running",
     "Display Name: C\nstate: stopped",
     "Module Name: D",
     "Nombre de módulo: E\nState: STOPPED",
     "Module Name: F\nState: Stopped (paused)"}

MainVTexts == {join(bs, "\n\n") : bs \in SeqsUpTo(MainBlockPool, MaxBlocks)}

\* ... and tables of 'driverquery /si /fo csv'.
MainSITexts ==
    {"", "\"DeviceName\",\"IsSigned\"\n\"dev1\",\"False\"\n\"dev2\",\"True\"",
     "DeviceName,IsSigned\ndev3,TRUE", "DeviceName\ndev4"}

Outcomes(texts) ==
    {[status |-> "not_found", stdout |-> ""], [status |-> "nonzero", stdout |-> ""]}
    \cup {[status |-> "ok", stdout |-> t] : t \in texts}

Init ==
    /\ pc = "main"
    /\ argv_view_web \in BOOLEAN
    /\ admin \in BOOLEAN
    /\ v_status = "not_run"
    /\ si_status = "not_run"
    /\ driver_v_output = NoneVal
    /\ signed_driver_output = NoneVal
    /\ all_drivers = <<>>
    /\ unsigned_drivers = <<>>
    /\ stopped_drivers = <<>>
    /\ si_locals = NoSiLocals
    /\ report = <<>>
    /\ console = <<>>

\* --view-web: open the help page and sys.exit(0).
ViewWeb ==
    /\ pc = "main"
    /\ argv_view_web
    /\ pc' = "exit_0"
    /\ UNCHANGED <<argv_view_web, admin, v_status, si_status, driver_v_output,
                   signed_driver_output, all_drivers, unsigned_drivers,
                   stopped_drivers, si_locals, report, console>>

NotAdmin ==
    /\ pc = "main"
    /\ ~argv_view_web
    /\ ~admin
    /\ console' = console \o <<"Error: This script requires administrative privileges.",
                               "Please run it as an administrator.">>
    /\ pc' = "exit_1"
    /\ UNCHANGED <<argv_view_web, admin, v_status, si_status, driver_v_output,
                   signed_driver_output, all_drivers, unsigned_drivers,
                   stopped_drivers, si_locals, report>>

StartAnalysis ==
    /\ pc = "main"
    /\ ~argv_view_web
    /\ admin
    /\ console' = Append(console, "Starting driver analysis... This may take a moment.")
    /\ pc' = "run_driverquery_v"
    /\ UNCHANGED <<argv_view_web, admin, v_status, si_status, driver_v_output,
                   signed_driver_output, all_drivers, unsigned_drivers,
                   stopped_drivers, si_locals, report>>

RunDriverQueryV ==
    /\ pc = "run_driverquery_v"
    /\ \E outcome \in Outcomes(MainVTexts) :
           LET ret == run_command(outcome)
           IN  /\ v_status' = outcome.status
               /\ driver_v_output' = ret.value
               /\ pc' = IF ret.raised THEN "raised" ELSE "run_driverquery_si"
    /\ UNCHANGED <<argv_view_web, admin, si_status, signed_driver_output,
                   all_drivers, unsigned_drivers, stopped_drivers, si_locals,
                   report, console>>

RunDriverQuerySI ==
    /\ pc = "run_driverquery_si"
    /\ \E outcome \in Outcomes(MainSITexts) :
           LET ret == run_command(outcome)
           IN  /\ si_status' = outcome.status
               /\ signed_driver_output' = ret.value
               /\ pc' = IF ret.raised THEN "raised" ELSE "check_outputs"
    /\ UNCHANGED <<argv_view_web, admin, v_status, driver_v_output, all_drivers,
                   unsigned_drivers, stopped_drivers, si_locals, report, console>>

\* The early return of main.
ReturnWithoutReport ==
    /\ pc = "check_outputs"
    /\ no_data(driver_v_output, signed_driver_output)
    /\ console' = Append(console, "Could not retrieve driver information. Exiting.")
    /\ pc' = "returned_without_report"
    /\ UNCHANGED <<argv_view_web, admin, v_status, si_status, driver_v_output,
                   signed_driver_output, all_drivers, unsigned_drivers,
                   stopped_drivers, si_locals, report>>

\* The two parsers and the filter.
ParseAndFilter ==
    /\ pc = "check_outputs"
    /\ ~no_data(driver_v_output, signed_driver_output)
    /\ LET drivers == parse_driver_v_output(driver_v_output)
           ret == parse_signed_driver_output(signed_driver_output)
       IN  /\ all_drivers' = drivers
           /\ unsigned_drivers' = ret.unsigned_drivers
           /\ si_locals' = [is_signed_index |-> ret.is_signed_index,
                            warned |-> ret.warned, raised |-> ret.raised]
           /\ stopped_drivers' = IF ret.raised THEN <<>> ELSE filter_stopped(drivers)
           /\ pc' = IF ret.raised THEN "raised" ELSE "generate_report"
    /\ UNCHANGED <<argv_view_web, admin, v_status, si_status, driver_v_output,
                   signed_driver_output, report, console>>

GenerateReport ==
    /\ pc = "generate_report"
    /\ \E now \in Timestamps :
           report' = generate_report(stopped_drivers, unsigned_drivers, now)
    /\ console' = console \o
           <<"Found " \o str(Len(stopped_drivers)) \o " stopped drivers.",
             "Found " \o str(Len(unsigned_drivers)) \o " unsigned drivers.",
             "A detailed report has been saved to 'report.txt'.">>
    /\ pc' = "done"
    /\ UNCHANGED <<argv_view_web, admin, v_status, si_status, driver_v_output,
                   signed_driver_output, all_drivers, unsigned_drivers,
                   stopped_drivers, si_locals>>

Next ==
    \/ ViewWeb
    \/ NotAdmin
    \/ StartAnalysis
    \/ RunDriverQueryV
    \/ RunDriverQuerySI
    \/ ReturnWithoutReport
    \/ ParseAndFilter
    \/ GenerateReport

Spec == Init /\ [][Next]_vars

----------------------------------------------------------------------------
(* What the claims about main speak of. *)

Failed(status) == status \in {"not_found", "nonzero"}

Parsed == pc \in {"generate_report", "done"}

Wrote(line) == \E i \in 1..Len(report) : report[i] = line

\* C1 (the claim as stated): past the privilege check, main returns before the
\* report only when both commands failed; so when both commands succeed, with
\* empty output or not, it does not.
C1_StopsOnlyWhenBothFailed ==
    pc = "returned_without_report" => (Failed(v_status) /\ Failed(si_status))

\* C4: stopped_drivers is the subsequence, in order and with repeats, of the
\* parsed records that have a State field whose lower-cased value is "stopped".
C4_StoppedSubsequence ==
    Parsed =>
        LET HasStoppedState(d) ==
                \E i \in 1..Len(d) : d[i][1] = "State" /\ lower(d[i][2]) = "stopped"
            picked == {i \in 1..Len(all_drivers) : HasStoppedState(all_drivers[i])}
        IN  /\ \A i \in 1..Len(stopped_drivers) : HasStoppedState(stopped_drivers[i])
            /\ Len(stopped_drivers) = Cardinality(picked)
            /\ stopped_drivers = SelectSeq(all_drivers, HasStoppedState)
            /\ all_drivers = parse_driver_v_output(driver_v_output)

\* A run that parsed the same stopped block twice, in upper case, next to no
\* other record: both copies are in stopped_drivers.
C4_Witness ==
    /\ pc = "done"
    /\ Len(all_drivers) = 2
    /\ all_drivers[1] = all_drivers[2]
    /\ dict_get(all_drivers[1], "State", "") = "STOPPED"
    /\ stopped_drivers = all_drivers

\* C6: run_command never raises and gives None for a command that was not found
\* and for one that exited non-zero alike; the parser of a failed command gives
\* the empty sequence; and when the other command printed something the run
\* does not return early, and the report it writes states zero for the failed
\* command's category.
C6_OneFailureIsNoData ==
    /\ pc # "raised"
    /\ Failed(v_status) => driver_v_output = NoneVal
    /\ Failed(si_status) => signed_driver_output = NoneVal
    /\ (Parsed /\ Failed(v_status)) => (all_drivers = <<>> /\ stopped_drivers = <<>>)
    /\ (Parsed /\ Failed(si_status)) => unsigned_drivers = <<>>
    /\ (Failed(v_status) /\ si_status = "ok" /\ ~Falsy(signed_driver_output)) =>
           /\ pc # "returned_without_report"
           /\ pc = "done" => Wrote("Found 0 stopped drivers.\n")
    /\ (Failed(si_status) /\ v_status = "ok" /\ ~Falsy(driver_v_output)) =>
           /\ pc # "returned_without_report"
           /\ pc = "done" => Wrote("Found 0 unsigned drivers.\n")

\* A finished run whose 'driverquery /v' exited non-zero while 'driverquery /si'
\* named an unsigned driver.
C6_Witness ==
    /\ pc = "done"
    /\ v_status = "nonzero"
    /\ unsigned_drivers = <<"dev1">>
    /\ Wrote("Found 0 stopped drivers.\n")
    /\ Wrote("Found 1 unsigned drivers.\n")

====
